---------------------------- MODULE Spec2Model ----------------------------
(***************************************************************************)
(* ChatStatistics (src/src/chat-statistics/stats.py): the two passes of    *)
(* get_top_users and the text-accumulation loop of generate_word_cloud,    *)
(* each loop iteration one step.                                           *)
(*                                                                         *)
(* A Python str is a sequence of one-character strings.  A message's text  *)
(* is [kind, str, segs]: kind "str" carries the string in .str, kind       *)
(* "list" carries the segments in .segs; a segment is [kind, has_text,     *)
(* text]: kind "str" is a plain string, kind "dict" an entity record whose *)
(* 'text' key exists iff has_text.  reply_to_message_id is <<>> when the   *)
(* key is absent and <<id>> when it is set.                                *)
(***************************************************************************)
EXTENDS Integers, Sequences, FiniteSets, TLC

VARIABLES chat_data, op, pc, i, is_question, users, ranking, result, top_n,
          text, text_content

vars == <<chat_data, op, pc, i, is_question, users, ranking, result, top_n,
          text, text_content>>

(* ------------------------------ bounds -------------------------------- *)
MaxMsgs == 3
MaxTopN == 2

(* --------------------------- input alphabet --------------------------- *)
SP == " "
QMARK == "?"
\* the Arabic question mark, code point U+061F
AQMARK == "U+061F"

Str(s) == [kind |-> "str", str |-> s, segs |-> <<>>]
List(l) == [kind |-> "list", str |-> <<>>, segs |-> l]
SegStr(s) == [kind |-> "str", has_text |-> FALSE, text |-> s]
SegDict(s) == [kind |-> "dict", has_text |-> TRUE, text |-> s]
SegDictNoText == [kind |-> "dict", has_text |-> FALSE, text |-> <<>>]

(* ------------------------------ rebuild_msg --------------------------- *)
Ok(v) == [raised |-> FALSE, value |-> v]
KeyError == [raised |-> TRUE, value |-> <<>>]

\* the piece alone, no space after it
RebuildPiece_bare(s) == s

\* the piece the loop body appends for one sub_msg (the piece, then " ")
RebuildPiece(s) == s \o <<SP>>

\* a best-effort rebuild: a record without 'text' is skipped
RECURSIVE rebuild_from_skip(_, _, _)
rebuild_from_skip(msg, k, msg_text) ==
    IF k > Len(msg) THEN Ok(msg_text)
    ELSE IF msg[k].kind = "dict" /\ ~msg[k].has_text
         THEN rebuild_from_skip(msg, k + 1, msg_text)
         ELSE rebuild_from_skip(msg, k + 1, msg_text \o RebuildPiece(msg[k].text))

RECURSIVE rebuild_from(_, _, _)
rebuild_from(msg, k, msg_text) ==
    IF k > Len(msg) THEN Ok(msg_text)
    ELSE IF msg[k].kind = "dict"
         THEN IF msg[k].has_text
              THEN rebuild_from(msg, k + 1, msg_text \o RebuildPiece(msg[k].text))
              ELSE KeyError
         ELSE rebuild_from(msg, k + 1, msg_text \o RebuildPiece(msg[k].text))

rebuild_msg(msg) == rebuild_from(msg, 1, <<>>)

\* the isinstance dispatch shared by msg_has_question and generate_word_cloud
flatten(t) ==
    IF t.kind = "str" THEN Ok(t.str)
    ELSE IF t.kind = "list" THEN rebuild_msg(t.segs)
    ELSE Ok(<<>>)

Contains(s, c) == \E k \in 1..Len(s) : s[k] = c

msg_has_question(msg) ==
    LET r == flatten(msg.text)
    IN  IF r.raised THEN KeyError
        ELSE Ok(Contains(r.value, QMARK) \/ Contains(r.value, AQMARK))


(* ------------------------------- inputs ------------------------------- *)
\* (from_id, from) pairs: user1 appears under two display names
Authors == { <<"user1", "Ali">>, <<"user1", "Reza">>, <<"user2", "Sara">> }

\* no reply, a reply to id 1 (a message deleted before the export: no
\* message of the log has it), or a reply to id 2, the first message of the
\* log
ReplyTargets == { <<>>, <<1>>, <<2>> }

\* texts of the ranking runs: a plain non-question, and a question whose
\* marker sits in an entity record
TopTexts == { Str(<<"o", "k">>),
              List(<< SegStr(<<"o">>), SegDict(<<AQMARK>>) >>) }

Message(id, a, r, t) ==
    [id |-> id, from |-> a[2], from_id |-> a[1],
     reply_to_message_id |-> r, text |-> t]

\* the logs of n messages in export order: message k has id k + 1, and a
\* reply is to an earlier id
ChatLogs(n, texts, authors, targets) ==
    { [k \in 1..n |-> Message(k + 1, f[k][1], f[k][2], f[k][3])] :
        f \in { g \in [1..n -> authors \X targets \X texts] :
                  \A k \in 1..n : g[k][2] # <<>> => g[k][2][1] < k + 1 } }

(* --------------------------- get_top_users ---------------------------- *)
\* a default of True for the missing keys
DefaultTrue == TRUE

\* is_question is a defaultdict(bool): a missing key reads as False
DefaultBool == FALSE

Lookup(isq, id) == IF id \in DOMAIN isq THEN isq[id] ELSE DefaultBool

\* ... and the read inserts the missing key
Touch(isq, id) ==
    IF id \in DOMAIN isq THEN isq
    ELSE [k \in DOMAIN isq \cup {id} |-> IF k = id THEN DefaultBool ELSE isq[k]]

SetKey(isq, id, v) == [k \in DOMAIN isq \cup {id} |-> IF k = id THEN v ELSE isq[k]]

\* users is a dict in insertion order: a sequence of [from_id, name, replies]
HasUser(us, fid) == \E k \in 1..Len(us) : us[k].from_id = fid

IndexOfUser(us, fid) == CHOOSE k \in 1..Len(us) : us[k].from_id = fid

\* msg.get('reply_to_message_id') is falsy
NoReply(msg) == msg.reply_to_message_id = <<>>

Target(msg) == msg.reply_to_message_id[1]

\* the target put at the head of the list
PrependReply(rec, target) == [rec EXCEPT !.replies = <<target>> \o @]

AppendReply(rec, target) == [rec EXCEPT !.replies = Append(@, target)]

NewRecord(msg) ==
    [from_id |-> msg.from_id, name |-> msg.from,
     replies |-> <<Target(msg)>>]

\* a scan that credits a reply only when its target is a question
ScanStep_questions_only(us, isq, msg) ==
    IF NoReply(msg) \/ ~Lookup(isq, Target(msg)) THEN us
    ELSE IF HasUser(us, msg.from_id)
         THEN [us EXCEPT ![IndexOfUser(us, msg.from_id)] =
                    AppendReply(@, Target(msg))]
         ELSE Append(us, NewRecord(msg))

\* one iteration of the reply scan, on the users dict
ScanStep(us, isq, msg) ==
    IF NoReply(msg) THEN us
    ELSE IF HasUser(us, msg.from_id)
         THEN [us EXCEPT ![IndexOfUser(us, msg.from_id)] =
                    AppendReply(@, Target(msg))]
         ELSE IF Lookup(isq, Target(msg))
              THEN Append(us, NewRecord(msg))
              ELSE us

\* ... and on the is_question defaultdict (read only in the elif)
ScanTouch(us, isq, msg) ==
    IF NoReply(msg) \/ HasUser(us, msg.from_id) THEN isq
    ELSE Touch(isq, Target(msg))

reply_conut(us) == [k \in 1..Len(us) |-> <<us[k].from_id, Len(us[k].replies)>>]

\* sorted(..., key=lambda x: x[1], reverse=True): stable, equal keys keep
\* their input order
\* an unstable sort: an entry goes before the entries of equal count
InsertPos_unstable(s, x) ==
    IF \E k \in 1..Len(s) : s[k][2] <= x[2]
    THEN CHOOSE k \in 1..Len(s) :
            /\ s[k][2] <= x[2]
            /\ \A j \in 1..(k - 1) : s[j][2] > x[2]
    ELSE Len(s) + 1

InsertPos(s, x) ==
    IF \E k \in 1..Len(s) : s[k][2] < x[2]
    THEN CHOOSE k \in 1..Len(s) :
            /\ s[k][2] < x[2]
            /\ \A j \in 1..(k - 1) : s[j][2] >= x[2]
    ELSE Len(s) + 1

InsertSorted(s, x) ==
    LET p == InsertPos(s, x)
    IN  SubSeq(s, 1, p - 1) \o <<x>> \o SubSeq(s, p, Len(s))

RECURSIVE sorted_from(_, _, _)
sorted_from(l, k, acc) ==
    IF k > Len(l) THEN acc ELSE sorted_from(l, k + 1, InsertSorted(acc, l[k]))

sorted(l) == sorted_from(l, 1, <<>>)

NameOf(us, fid) == us[IndexOfUser(us, fid)].name

users_with_most_replies(us) ==
    LET s == sorted(reply_conut(us))
    IN  [k \in 1..Len(s) |-> <<NameOf(us, s[k][1]), s[k][2]>>]

\* a truncation that keeps one entry too many
Slice_one_more(l, n) == SubSeq(l, 1, IF n + 1 < Len(l) THEN n + 1 ELSE Len(l))

\* l[:n] for n >= 0
Slice(l, n) == SubSeq(l, 1, IF n < Len(l) THEN n ELSE Len(l))

\* the two loops of get_top_users run to their end on a log
RECURSIVE index_from(_, _, _)
index_from(log, k, isq) ==
    IF k > Len(log) THEN isq
    ELSE index_from(log, k + 1, SetKey(isq, log[k].id, msg_has_question(log[k]).value))

RECURSIVE scan_from(_, _, _, _)
scan_from(log, k, us, isq) ==
    IF k > Len(log) THEN us
    ELSE scan_from(log, k + 1, ScanStep(us, isq, log[k]), ScanTouch(us, isq, log[k]))

users_of(log) == scan_from(log, 1, <<>>, index_from(log, 1, <<>>))

Init ==
    /\ \E n \in 0..MaxMsgs : chat_data \in ChatLogs(n, TopTexts, Authors, ReplyTargets)
    /\ op = "get_top_users"
    /\ pc = "index"
    /\ i = 1
    /\ is_question = <<>>
    /\ users = <<>>
    /\ ranking = <<>>
    /\ result = <<>>
    /\ top_n = -1
    /\ text = <<>>
    /\ text_content = <<>>

\* first loop of get_top_users, one message
IndexQuestion ==
    /\ pc = "index"
    /\ i <= Len(chat_data)
    /\ LET q == msg_has_question(chat_data[i])
       IN  IF q.raised
           THEN /\ pc' = "raised"
                /\ UNCHANGED <<i, is_question>>
           ELSE /\ is_question' = SetKey(is_question, chat_data[i].id, q.value)
                /\ i' = i + 1
                /\ pc' = pc
    /\ UNCHANGED <<chat_data, op, users, ranking, result, top_n, text, text_content>>

\* the first loop is exhausted, the second begins
StartScan ==
    /\ pc = "index"
    /\ i > Len(chat_data)
    /\ pc' = "scan"
    /\ i' = 1
    /\ UNCHANGED <<chat_data, op, is_question, users, ranking, result, top_n,
                   text, text_content>>

\* second loop of get_top_users, one message
ScanReply ==
    /\ pc = "scan"
    /\ i <= Len(chat_data)
    /\ users' = ScanStep(users, is_question, chat_data[i])
    /\ is_question' = ScanTouch(users, is_question, chat_data[i])
    /\ i' = i + 1
    /\ UNCHANGED <<chat_data, op, pc, ranking, result, top_n, text, text_content>>

\* the second loop is exhausted: count, sort, map to names, truncate.
\* top_n is the call's argument; nothing reads it before the return.
RankUsers ==
    /\ pc = "scan"
    /\ i > Len(chat_data)
    /\ \E n \in 0..MaxTopN : top_n' = n
    /\ ranking' = sorted(reply_conut(users))
    /\ result' = Slice(users_with_most_replies(users), top_n')
    /\ pc' = "done"
    /\ UNCHANGED <<chat_data, op, i, is_question, users, text, text_content>>

Next == IndexQuestion \/ StartScan \/ ScanReply \/ RankUsers

Spec == Init /\ [][Next]_vars

(* ---------------------------- process_text --------------------------- *)
\* the Arabic letter kaf, U+0643, and the Persian one, U+06A9, that the
\* normalizer writes for it
KAF_AR == "U+0643"
KAF_FA == "U+06A9"

IsMark(c) == c \in {QMARK, AQMARK}

Flush(acc, cur) == IF cur = <<>> THEN acc ELSE Append(acc, cur)

\* word_tokenize: tokens are separated by whitespace, a question mark is a
\* token of its own
RECURSIVE tokenize_from(_, _, _, _)
tokenize_from(s, k, cur, acc) ==
    IF k > Len(s) THEN Flush(acc, cur)
    ELSE IF s[k] = SP THEN tokenize_from(s, k + 1, <<>>, Flush(acc, cur))
    ELSE IF IsMark(s[k])
         THEN tokenize_from(s, k + 1, <<>>, Append(Flush(acc, cur), <<s[k]>>))
         ELSE tokenize_from(s, k + 1, Append(cur, s[k]), acc)

word_tokenize(s) == tokenize_from(s, 1, <<>>, <<>>)

\* ' '.join(tokens)
RECURSIVE join_from(_, _)
join_from(tokens, k) ==
    IF k > Len(tokens) THEN <<>>
    ELSE IF k = Len(tokens) THEN tokens[k]
    ELSE tokens[k] \o <<SP>> \o join_from(tokens, k + 1)

join(tokens) == join_from(tokens, 1)

\* Normalizer.normalize: Arabic letters become Persian ones, and the space
\* before a punctuation mark goes
RECURSIVE normalize_from(_, _)
normalize_from(s, k) ==
    IF k > Len(s) THEN <<>>
    ELSE IF s[k] = SP /\ k < Len(s) /\ IsMark(s[k + 1]) THEN normalize_from(s, k + 1)
    ELSE <<IF s[k] = KAF_AR THEN KAF_FA ELSE s[k]>> \o normalize_from(s, k + 1)

normalize(s) == normalize_from(s, 1)

\* the lines of stopwords.txt, stripped
StopwordLines == { <<"a">>, <<KAF_AR, "h">> }

stop_words == { normalize(w) : w \in StopwordLines }

RECURSIVE filter_from(_, _)
filter_from(tokens, k) ==
    IF k > Len(tokens) THEN <<>>
    ELSE IF tokens[k] \notin stop_words
         THEN <<tokens[k]>> \o filter_from(tokens, k + 1)
         ELSE filter_from(tokens, k + 1)

process_text(t) == normalize(join(filter_from(word_tokenize(t), 1)))

(* ------------------------- generate_word_cloud ------------------------ *)
\* an accumulation that skips the empty contents
AddContent_skip_empty(tc, content) ==
    IF content = <<>> THEN tc ELSE tc \o <<SP>> \o content

\* text_content += f" {content}"
AddContent(tc, content) == tc \o <<SP>> \o content

CloudTexts == { Str(<<>>),
                Str(<<"h", "i">>),
                Str(<<"a">>),
                List(<<>>),
                List(<< SegStr(<<"h", "i">>), SegDict(<<"a", QMARK>>) >>),
                List(<< SegDict(<<KAF_AR>>) >>),
                List(<< SegStr(<<"h", "i">>), SegDictNoText >>) }

CloudAuthors == { <<"user1", "Ali">> }

CloudTargets == { <<>>, <<2>> }

\* either entry point, called on a log whose texts take every shape
InitText ==
    /\ \E n \in 0..MaxMsgs :
          chat_data \in ChatLogs(n, CloudTexts, CloudAuthors, CloudTargets)
    /\ op \in {"get_top_users", "generate_word_cloud"}
    /\ pc = IF op = "get_top_users" THEN "index" ELSE "append"
    /\ i = 1
    /\ is_question = <<>>
    /\ users = <<>>
    /\ ranking = <<>>
    /\ result = <<>>
    /\ top_n = -1
    /\ text = <<>>
    /\ text_content = <<>>

\* the loop of generate_word_cloud, one message
AppendText ==
    /\ pc = "append"
    /\ i <= Len(chat_data)
    /\ LET r == flatten(chat_data[i].text)
       IN  IF r.raised
           THEN /\ pc' = "raised"
                /\ UNCHANGED <<i, text, text_content>>
           ELSE /\ text' = r.value
                /\ text_content' =
                      IF chat_data[i].text.kind \in {"str", "list"}
                      THEN AddContent(text_content, process_text(r.value))
                      ELSE text_content
                /\ i' = i + 1
                /\ pc' = pc
    /\ UNCHANGED <<chat_data, op, is_question, users, ranking, result, top_n>>

\* the loop is exhausted: text_content is the corpus handed to the reshaper
\* and the renderer
Reshape ==
    /\ pc = "append"
    /\ i > Len(chat_data)
    /\ pc' = "done"
    /\ UNCHANGED <<chat_data, op, i, is_question, users, ranking, result, top_n,
                   text, text_content>>

NextText ==
    \/ IndexQuestion \/ StartScan \/ ScanReply \/ RankUsers
    \/ AppendText \/ Reshape

SpecText == InitText /\ [][NextText]_vars

(* ======================== the claims, restated ======================== *)
Marks == {QMARK, AQMARK}

\* the leaf strings of a text, in order
Leaves(t) == IF t.kind = "str" THEN <<t.str>> ELSE [k \in 1..Len(t.segs) |-> t.segs[k].text]

LeafHasMark(t) ==
    \E k \in 1..Len(Leaves(t)) : \E j \in 1..Len(Leaves(t)[k]) : Leaves(t)[k][j] \in Marks

\* id is the id of a message of the log whose text holds a question mark
IsQuestionId(id) ==
    \E k \in 1..Len(chat_data) : chat_data[k].id = id /\ LeafHasMark(chat_data[k].text)

IsReply(k) == chat_data[k].reply_to_message_id # <<>>

RepliesOf(fid) == { k \in 1..Len(chat_data) : IsReply(k) /\ chat_data[k].from_id = fid }

\* the replies of fid whose target is a question of the log
CreditsOf(fid) == { k \in RepliesOf(fid) : IsQuestionId(chat_data[k].reply_to_message_id[1]) }

Min(S) == CHOOSE x \in S : \A y \in S : x <= y

FromIds == { chat_data[k].from_id : k \in 1..Len(chat_data) }

Returned == op = "get_top_users" /\ pc = "done"

\* every returned entry is the entry of the sorted count list at its place
ResultFollowsRanking ==
    \A k \in 1..Len(result) :
        /\ k <= Len(ranking)
        /\ result[k][2] = ranking[k][2]
        /\ \E u \in 1..Len(users) :
              users[u].from_id = ranking[k][1] /\ users[u].name = result[k][1]

CountFromFirstCredit(fid) ==
    IF CreditsOf(fid) = {} THEN 0
    ELSE Cardinality({ k \in RepliesOf(fid) : k >= Min(CreditsOf(fid)) })

\* C2: an author's count is the number of the author's replies from the
\* first reply to an indexed question on, inclusive, whatever the later
\* targets; the replies before it are not counted; an author with no reply
\* to an indexed question has no entry.
C2_CountFromFirstQuestionReply ==
    Returned =>
        /\ \A fid \in FromIds :
              IF CountFromFirstCredit(fid) = 0
              THEN \A k \in 1..Len(ranking) : ranking[k][1] # fid
              ELSE Cardinality({ k \in 1..Len(ranking) : ranking[k][1] = fid }) = 1
                   /\ \E k \in 1..Len(ranking) :
                          ranking[k] = <<fid, CountFromFirstCredit(fid)>>
        /\ \A k \in 1..Len(ranking) : ranking[k][1] \in FromIds
        /\ ResultFollowsRanking

\* an author replied to a non-question, then to a question, then to a
\* non-question: the count is 2
C2_Witness ==
    /\ Returned
    /\ \E fid \in FromIds :
          /\ Cardinality(RepliesOf(fid)) = 3
          /\ Cardinality(CreditsOf(fid)) = 1
          /\ CountFromFirstCredit(fid) = 2
          /\ \E k \in 1..Len(ranking) : ranking[k] = <<fid, 2>>

Perms(n) == { p \in [1..n -> 1..n] : \A a, b \in 1..n : p[a] = p[b] => a = b }

Permuted(log, p) == [k \in 1..Len(log) |-> log[p[k]]]

Counts(us) == { <<us[k].from_id, Len(us[k].replies)>> : k \in 1..Len(us) }

\* C3: every author's count is the same for every order of the messages of
\* the log.
C3_OrderIndependent ==
    Returned =>
        \A p \in Perms(Len(chat_data)) :
            Counts(users_of(Permuted(chat_data, p))) = Counts(users)

\* C4: no record is created by a reply to a question the replier wrote.
C4_OnlyOthersQuestions ==
    \A u \in 1..Len(users) :
        \A k \in 1..Len(chat_data) :
            chat_data[k].id = users[u].replies[1] =>
                chat_data[k].from_id # users[u].from_id

Smaller(a, b) == IF a < b THEN a ELSE b

\* C5: the returned sequence is the first min(top_n, number of recorded
\* authors) entries of the full ranking: empty for top_n = 0, the whole
\* ranking for a top_n beyond its length, empty for an empty log.
C5_Truncation ==
    Returned =>
        /\ Len(ranking) = Len(users)
        /\ Len(result) = Smaller(top_n, Len(users))
        /\ ResultFollowsRanking
        /\ top_n = 0 => result = <<>>
        /\ top_n >= Len(users) => Len(result) = Len(ranking)
        /\ chat_data = <<>> => ranking = <<>> /\ result = <<>>

\* two authors are recorded and one entry is returned
C5_Witness == Returned /\ Len(users) = 2 /\ top_n = 1 /\ Len(result) = 1

IdsOf(log) == { log[k].id : k \in 1..Len(log) }

IsDangling(k) == IsReply(k) /\ chat_data[k].reply_to_message_id[1] \notin IdsOf(chat_data)

RecordedIds(us) == { us[k].from_id : k \in 1..Len(us) }

\* C6: the scan of a reply to an id no message has raises nothing, goes on
\* to the next message and creates no record; an author all of whose replies
\* are such has no entry in the ranking.
C6_Dangling ==
    [][ /\ (pc = "scan" /\ i <= Len(chat_data) /\ IsDangling(i)) =>
              /\ pc' = "scan"
              /\ i' = i + 1
              /\ RecordedIds(users') = RecordedIds(users)
        /\ (pc' = "done" /\ op = "get_top_users") =>
              \A fid \in FromIds :
                  (\A k \in RepliesOf(fid) : IsDangling(k)) =>
                      /\ \A k \in 1..Len(ranking') : ranking'[k][1] # fid
                      /\ fid \notin RecordedIds(users')
      ]_vars

\* the ranking is returned for a log where one author's only reply dangles
\* and another author is ranked
C6_Witness ==
    /\ Returned
    /\ Len(ranking) = 1
    /\ \E fid \in FromIds :
          /\ RepliesOf(fid) # {}
          /\ \A k \in RepliesOf(fid) : IsDangling(k)
          /\ ranking[1][1] # fid

IsPrefix(a, b) == Len(a) <= Len(b) /\ SubSeq(b, 1, Len(a)) = a

RecordsInv ==
    /\ \A u \in 1..Len(users) :
          /\ users[u].replies # <<>>
          /\ IsQuestionId(users[u].replies[1])
          /\ Lookup(is_question, users[u].replies[1])
    /\ \A k \in 1..Len(ranking) : ranking[k][2] >= 1
    /\ \A k \in 1..Len(result) : result[k][2] >= 1

RecordsGrow ==
    /\ Len(users') >= Len(users)
    /\ \A u \in 1..Len(users) :
          /\ users'[u].from_id = users[u].from_id
          /\ users'[u].name = users[u].name
          /\ IsPrefix(users[u].replies, users'[u].replies)

\* C10: during the reply scan every record has a non-empty reply list whose
\* first element is the id of a message indexed as a question; no record is
\* removed, a list is only extended at its end, a display name never
\* changes; every entry of the ranking has a count of at least 1.
C10_RecordsMonotone == []RecordsInv /\ [][RecordsGrow]_vars

\* a record holds two replies, the second under another display name
C10_Witness ==
    /\ pc = "scan"
    /\ i > 1
    /\ \E u \in 1..Len(users) :
          /\ Len(users[u].replies) >= 2
          /\ chat_data[i - 1].from_id = users[u].from_id
          /\ chat_data[i - 1].from # users[u].name
          /\ ~IsQuestionId(users[u].replies[2])

InCloud == op = "generate_word_cloud"

\* the text of the message the loop of generate_word_cloud handled last
LastText == chat_data[i - 1].text

RECURSIVE LenSum(_, _)
\* the lengths of the first k pieces, each counted with one separator
LenSum(pieces, k) == IF k = 0 THEN 0 ELSE LenSum(pieces, k - 1) + Len(pieces[k]) + 1

\* C7 as written: a plain string is returned as it is; a sequence gives its
\* pieces in order, one space between consecutive pieces, nothing before the
\* first piece and nothing after the last.
C7_JoinedBySingleSpaces ==
    (InCloud /\ i > 1) =>
        IF LastText.kind = "str" THEN text = LastText.str
        ELSE LET pieces == Leaves(LastText)
                 n == Len(pieces)
             IN  /\ Len(text) = IF n = 0 THEN 0 ELSE LenSum(pieces, n) - 1
                 /\ \A k \in 1..n :
                       /\ SubSeq(text, LenSum(pieces, k - 1) + 1,
                                 LenSum(pieces, k) - 1) = pieces[k]
                       /\ k < n => text[LenSum(pieces, k)] = SP

\* C7, amended: a plain string is returned as it is; a sequence gives its
\* pieces in order, each piece followed by exactly one space, the last piece
\* included, and nothing before the first piece.
C7_EachPieceThenSpace ==
    (InCloud /\ i > 1) =>
        IF LastText.kind = "str" THEN text = LastText.str
        ELSE LET pieces == Leaves(LastText)
                 n == Len(pieces)
             IN  /\ Len(text) = LenSum(pieces, n)
                 /\ \A k \in 1..n :
                       /\ SubSeq(text, LenSum(pieces, k - 1) + 1,
                                 LenSum(pieces, k) - 1) = pieces[k]
                       /\ text[LenSum(pieces, k)] = SP

\* a sequence of a string and a record has been flattened
C7_Witness ==
    /\ InCloud
    /\ i > 1
    /\ LastText.kind = "list"
    /\ Len(LastText.segs) = 2
    /\ LastText.segs[1].kind = "str"
    /\ LastText.segs[2].kind = "dict"
    /\ text = <<"h", "i", SP, "a", QMARK, SP>>

RECURSIVE CorpusOf(_)
\* one piece per message among the first k: a space, then the processed text
CorpusOf(k) ==
    IF k = 0 THEN <<>>
    ELSE CorpusOf(k - 1) \o <<SP>> \o process_text(flatten(chat_data[k].text).value)

\* C8: the corpus is the concatenation, in log order, of one piece per
\* message, a single space followed by the processed flattened text; a
\* message that processes to the empty string contributes its space alone
\* ("hi" and "" give " hi "); an empty log gives the empty string.
C8_Corpus ==
    (InCloud /\ pc \in {"append", "done"}) =>
        /\ text_content = CorpusOf(i - 1)
        /\ Len(text_content) >= i - 1
        /\ (pc = "done" /\ chat_data = <<>>) => text_content = <<>>
        /\ ( /\ pc = "done"
             /\ Len(chat_data) = 2
             /\ process_text(flatten(chat_data[1].text).value) = <<"h", "i">>
             /\ process_text(flatten(chat_data[2].text).value) = <<>> )
           => text_content = <<SP, "h", "i", SP>>

\* the corpus of a log of "hi" and of a stopword alone is " hi "
C8_Witness ==
    /\ InCloud
    /\ pc = "done"
    /\ Len(chat_data) = 2
    /\ chat_data[1].text = Str(<<"h", "i">>)
    /\ chat_data[2].text = Str(<<"a">>)
    /\ text_content = <<SP, "h", "i", SP>>

\* message k holds an entity record without a text field
Malformed(k) ==
    /\ chat_data[k].text.kind = "list"
    /\ \E j \in 1..Len(chat_data[k].text.segs) :
          /\ chat_data[k].text.segs[j].kind = "dict"
          /\ ~chat_data[k].text.segs[j].has_text

\* C9: a log with a record that has no text field makes the pass raise at
\* the first such message: get_top_users never reaches its reply scan and
\* returns no ranking, generate_word_cloud never hands over a corpus; a log
\* without such a record never raises.
C9_MalformedAborts ==
    /\ (\E k \in 1..Len(chat_data) : Malformed(k)) =>
          /\ pc \in {"index", "append", "raised"}
          /\ users = <<>> /\ ranking = <<>> /\ result = <<>>
    /\ pc = "raised" =>
          /\ i <= Len(chat_data)
          /\ Malformed(i)
          /\ \A k \in 1..(i - 1) : ~Malformed(k)
    /\ (\A k \in 1..Len(chat_data) : ~Malformed(k)) => pc # "raised"

\* the word cloud pass has raised with a part of the corpus accumulated
C9_Witness == pc = "raised" /\ InCloud /\ i = 3 /\ Len(text_content) > 2

=============================================================================
